---- MODULE Spec2Model ----
(***************************************************************************)
(* Model of ecms/templatetags/stylable_admin_list.py: the template helpers *)
(* that render the rows and headers of the admin change list.              *)
(*                                                                         *)
(* The helpers are stateless: every call is a function of the ChangeList   *)
(* `cl` it is given.  The static part of `cl` (what the ModelAdmin class   *)
(* declares) is drawn in Init; what depends on the request (the result     *)
(* list, the formset, the popup flag, the headers) is drawn by the         *)
(* action that models the call.  `call` records the last call made: its    *)
(* arguments and what it returned or raised.                               *)
(*                                                                         *)
(* Strings of HTML are modelled structurally: a table cell is a record of  *)
(* its tag, its attributes and its body; a header's class_attrib string is *)
(* a sequence of tokens on which str.replace acts token by token.          *)
(***************************************************************************)
EXTENDS Integers, Sequences, FiniteSets, TLC

VARIABLES list_display, list_display_links, list_column_classes, call

vars == <<list_display, list_display_links, list_column_classes, call>>

----------------------------------------------------------------------------
(* Bounds of the model *)

MaxCols == 2
MaxResults == 2
MaxForms == 2
MaxLevel == 1

(* settings.MPTT_ADMIN_LEVEL_INDENT, default value *)
MPTT_ADMIN_LEVEL_INDENT == 10

----------------------------------------------------------------------------
(* The model class and ModelAdmin the change list is about.                *)
(*   title         a CharField of the model                                *)
(*   created       a DateField of the model                                *)
(*   admin_method  a method of the ModelAdmin                              *)
(*   get_url       a method of the model                                   *)
(*   prop          a property of the model, whose value is ''              *)
(*   missing       a name that is neither a field nor an attribute         *)
(*   fn            a callable object placed in list_display                *)

ModelFields == {"title", "created"}

Names == ModelFields \cup {"admin_method", "get_url", "prop", "missing", "fn"}

None == "None"

NoForm == [id |-> 0, fields |-> {}]

Min(a, b) == IF a < b THEN a ELSE b

SeqsUpTo(S, n) == UNION {[1..k -> S] : k \in 0..n}

(* Python truthiness of a str-or-None value *)
Truthy(v) == v \notin {None, ""}

(* dict.get(key): None when the key is absent *)
DictGet(d, k) == IF k \in DOMAIN d THEN d[k] ELSE None

(* callable(field_name): the list_display entry is itself a function *)
IsCallableEntry(field_name) == field_name = "fn"

(* cl.lookup_opts.get_field(field_name) does not raise FieldDoesNotExist *)
IsModelField(field_name) == field_name \in ModelFields

(* hasattr(cl.model_admin, field_name) *)
HasAdminAttr(field_name) == field_name = "admin_method"

(* hasattr(result, field_name), for the names that are not model fields *)
HasResultAttr(field_name) == field_name \in {"get_url", "prop"}

(* callable(getattr(result, field_name, None)) *)
ResultAttrCallable(field_name) == field_name = "get_url"

----------------------------------------------------------------------------
(* _get_mptt_indent_field(cl, result), lines 155-178.                      *)
(* getattr(result, field_name, None) raises TypeError when field_name is   *)
(* not a string (a callable list_display entry).                           *)

RECURSIVE IndentLoop(_, _, _)
IndentLoop(cl, i, mptt_indent_field) ==
    IF i > Len(cl.list_display)
    THEN [status |-> "ok", field |-> mptt_indent_field]
    ELSE LET field_name == cl.list_display[i] IN
         IF IsModelField(field_name)
         THEN [status |-> "ok", field |-> field_name]
         ELSE IF mptt_indent_field = None
              THEN IF IsCallableEntry(field_name)
                   THEN [status |-> "TypeError", field |-> None]
                   ELSE IF ResultAttrCallable(field_name)
                        THEN IndentLoop(cl, i + 1, field_name)
                        ELSE IndentLoop(cl, i + 1, mptt_indent_field)
              ELSE IndentLoop(cl, i + 1, mptt_indent_field)

_get_mptt_indent_field(cl, result) ==
    IF ~result.mptt
    THEN [status |-> "ok", field |-> None]
    ELSE IndentLoop(cl, 1, None)

----------------------------------------------------------------------------
(* _get_field_repr(cl, result, f), lines 239-282: the representation and   *)
(* the built-in classes of a model field's column.                         *)

_get_field_repr(cl, result, f) ==
    IF f = "created"
    THEN [repr |-> "date", row_classes |-> [isNone |-> FALSE, items |-> <<"nowrap">>]]
    ELSE [repr |-> "text", row_classes |-> [isNone |-> FALSE, items |-> <<>>]]

(* _get_non_field_repr(cl, result, field_name), lines 194-236: returns     *)
(* (result_repr, None).                                                    *)

_get_non_field_repr(cl, result, field_name) ==
    LET result_repr ==
            IF IsCallableEntry(field_name) THEN "text"
            ELSE IF HasAdminAttr(field_name) THEN "text"
            ELSE IF ~HasResultAttr(field_name) THEN "(None)"
            ELSE IF ResultAttrCallable(field_name) THEN "text"
            ELSE ""
    IN [repr |-> result_repr, row_classes |-> [isNone |-> TRUE, items |-> <<>>]]

(* _get_column_repr(cl, result, field_name), lines 181-191 *)

_get_column_repr(cl, result, field_name) ==
    IF IsModelField(field_name)
    THEN _get_field_repr(cl, result, field_name)
    ELSE _get_non_field_repr(cl, result, field_name)

----------------------------------------------------------------------------
(* stylable_items_for_result(cl, result, form), lines 82-152.              *)
(* A cell: tag, style (padding-left in px, -1 when absent), classes (the   *)
(* class attribute, <<>> when absent), href (pk of the linked result, 0    *)
(* when the cell is no link), onclick, body, form (id of the form whose    *)
(* bound field is the body, 0 when none).                                  *)

(* A slip that makes every link cell a header cell *)
TableTagAlwaysTh(first) == "th"

TableTag(first) == IF first THEN "th" ELSE "td"

IsLinkColumn(cl, field_name, first) ==
    \/ (first /\ cl.list_display_links = {})
    \/ field_name \in cl.list_display_links

ColumnStep(cl, result, form, mptt_indent_field, field_name, first) ==
    LET col == _get_column_repr(cl, result, field_name)
        result_repr == IF col.repr = "" THEN "&nbsp;" ELSE col.repr
        style == IF field_name = mptt_indent_field
                 THEN 5 + MPTT_ADMIN_LEVEL_INDENT * result.level
                 ELSE -1
        column_class == DictGet(cl.list_column_classes, field_name)
    IN  IF Truthy(column_class) /\ col.row_classes.isNone
        THEN [status |-> "AttributeError"]
        ELSE
        LET row_classes ==
                IF Truthy(column_class)
                THEN Append(col.row_classes.items, column_class)
                ELSE col.row_classes.items
        IN  IF IsLinkColumn(cl, field_name, first)
            THEN [status |-> "ok", first |-> FALSE,
                  cell |-> [tag |-> TableTag(first), style |-> style,
                            classes |-> row_classes, href |-> result.pk,
                            onclick |-> cl.is_popup, body |-> result_repr,
                            form |-> 0]]
            ELSE [status |-> "ok", first |-> first,
                  cell |-> [tag |-> "td", style |-> style,
                            classes |-> row_classes, href |-> 0,
                            onclick |-> FALSE,
                            body |-> IF form # NoForm /\ field_name \in form.fields
                                     THEN "widget" ELSE result_repr,
                            form |-> IF form # NoForm /\ field_name \in form.fields
                                     THEN form.id ELSE 0]]

RECURSIVE ItemsLoop(_, _, _, _, _, _)
ItemsLoop(cl, result, form, mptt_indent_field, i, first) ==
    IF i > Len(cl.list_display)
    THEN [status |-> "ok",
          cells |-> IF form # NoForm
                    THEN <<[tag |-> "td", style |-> -1, classes |-> <<>>,
                            href |-> 0, onclick |-> FALSE, body |-> "pk",
                            form |-> form.id]>>
                    ELSE <<>>]
    ELSE LET step == ColumnStep(cl, result, form, mptt_indent_field,
                                cl.list_display[i], first)
         IN  IF step.status # "ok"
             THEN [status |-> step.status, cells |-> <<>>]
             ELSE LET rest == ItemsLoop(cl, result, form, mptt_indent_field,
                                        i + 1, step.first)
                  IN  IF rest.status # "ok"
                      THEN rest
                      ELSE [status |-> "ok", cells |-> <<step.cell>> \o rest.cells]

stylable_items_for_result(cl, result, form) ==
    LET indent == _get_mptt_indent_field(cl, result)
    IN  IF indent.status # "ok"
        THEN [status |-> indent.status, cells |-> <<>>]
        ELSE ItemsLoop(cl, result, form, indent.field, 1, TRUE)

----------------------------------------------------------------------------
(* stylable_results(cl), lines 69-79.  cl.formset is None (present = FALSE) *)
(* or a formset; zip() stops at the shorter of its two arguments.  A row   *)
(* that raises makes the whole list() raise.                               *)

NoFormset == [present |-> FALSE, truthy |-> FALSE, forms |-> <<>>]

RECURSIVE RowsLoop(_, _, _, _)
RowsLoop(cl, i, n, with_forms) ==
    IF i > n
    THEN [status |-> "ok", rows |-> <<>>]
    ELSE LET row == stylable_items_for_result(
                        cl, cl.result_list[i],
                        IF with_forms THEN cl.formset.forms[i] ELSE NoForm)
         IN  IF row.status # "ok"
             THEN [status |-> row.status, rows |-> <<>>]
             ELSE LET rest == RowsLoop(cl, i + 1, n, with_forms)
                  IN  IF rest.status # "ok"
                      THEN rest
                      ELSE [status |-> "ok", rows |-> <<row.cells>> \o rest.rows]

ZipLen(a, b) == Min(Len(a), Len(b))

stylable_results(cl) ==
    IF cl.formset.truthy
    THEN RowsLoop(cl, 1, ZipLen(cl.result_list, cl.formset.forms), TRUE)
    ELSE RowsLoop(cl, 1, Len(cl.result_list), FALSE)

----------------------------------------------------------------------------
(* stylable_result_headers(cl), lines 55-66.  A class_attrib string is a   *)
(* sequence of tokens: a space, the opening class=", a class name, the     *)
(* class col-NAME, the closing quote.                                       *)

SP == [k |-> "space", v |-> ""]
OPEN == [k |-> "open", v |-> ""]
CLOSE == [k |-> "close", v |-> ""]
Cls(c) == [k |-> "class", v |-> c]
Col(field_name) == [k |-> "col-", v |-> field_name]

(* s.replace('class="', 'class="col-%s ' % field_name) *)
RECURSIVE StrReplace(_, _)
StrReplace(s, field_name) ==
    IF s = <<>> THEN <<>>
    ELSE (IF Head(s) = OPEN THEN <<OPEN, Col(field_name), SP>> ELSE <<Head(s)>>)
         \o StrReplace(Tail(s), field_name)

(* A slip that tests for the key instead of for a non-empty value *)
StylableHeaderKeyTest(field_name, header) ==
    IF header.has_class_attrib
    THEN [header EXCEPT !.class_attrib = StrReplace(header.class_attrib, field_name)]
    ELSE [header EXCEPT !.has_class_attrib = TRUE,
                        !.class_attrib = <<SP, OPEN, Col(field_name), CLOSE>>]

StylableHeader(field_name, header) ==
    IF header.has_class_attrib /\ header.class_attrib # <<>>
    THEN [header EXCEPT !.class_attrib = StrReplace(header.class_attrib, field_name)]
    ELSE [header EXCEPT !.has_class_attrib = TRUE,
                        !.class_attrib = <<SP, OPEN, Col(field_name), CLOSE>>]

stylable_result_headers(cl, result_headers) ==
    [i \in 1..ZipLen(cl.list_display, result_headers) |->
        StylableHeader(cl.list_display[i], result_headers[i])]

(* stylable_result_list(cl), lines 43-52: the context of the template *)

stylable_result_list(cl, result_headers) ==
    [cl |-> cl,
     result_headers |-> stylable_result_headers(cl, result_headers),
     results |-> stylable_results(cl)]

----------------------------------------------------------------------------
(* The inputs of the calls *)

Levels == 0..MaxLevel

Results(pk) ==
    {[pk |-> pk, mptt |-> FALSE, level |-> 0]}
    \cup {[pk |-> pk, mptt |-> TRUE, level |-> l] : l \in Levels}

(* cl.result_list: instances of one model, with distinct primary keys *)
ResultLists ==
    UNION {{[i \in 1..n |-> [pk |-> i, mptt |-> FALSE, level |-> 0]]}
           \cup {[i \in 1..n |-> [pk |-> i, mptt |-> TRUE, level |-> ls[i]]] :
                   ls \in [1..n -> Levels]} : n \in 0..MaxResults}

(* form.fields beyond the primary key: ModelAdmin.list_editable *)
Editable == {{}, {"title"}}

Forms == {NoForm} \cup {[id |-> 1, fields |-> e] : e \in Editable}

(* A formset without forms is falsy where BaseFormSet defines __len__ and  *)
(* truthy where it does not.                                               *)
FormSets ==
    {NoFormset}
    \cup {[present |-> TRUE, truthy |-> t, forms |-> <<>>] : t \in BOOLEAN}
    \cup {[present |-> TRUE, truthy |-> TRUE,
           forms |-> [i \in 1..n |-> [id |-> i, fields |-> e]]] :
             n \in 1..MaxForms, e \in Editable}

(* The headers of the framework's result_headers(cl), one per column: no  *)
(* class_attrib key, an empty class_attrib, or  class="sorted ascending".  *)
HeaderShapes ==
    {[has_class_attrib |-> FALSE, class_attrib |-> <<>>],
     [has_class_attrib |-> TRUE, class_attrib |-> <<>>],
     [has_class_attrib |-> TRUE,
      class_attrib |-> <<SP, OPEN, Cls("sorted"), SP, Cls("ascending"), CLOSE>>]}

LinkChoices == SUBSET {"title", "admin_method"}

EmptyDict == [n \in {} |-> ""]

ClassChoices ==
    {EmptyDict}
    \cup {[x \in {n} |-> "wide"] : n \in Names}
    \cup {[x \in {"title"} |-> ""]}

Cl(is_popup, result_list, formset) ==
    [list_display |-> list_display,
     list_display_links |-> list_display_links,
     list_column_classes |-> list_column_classes,
     is_popup |-> is_popup,
     result_list |-> result_list,
     formset |-> formset]

----------------------------------------------------------------------------
Init ==
    /\ list_display \in SeqsUpTo(Names, MaxCols)
    /\ list_display_links \in LinkChoices
    /\ list_column_classes \in ClassChoices
    /\ call = [op |-> "none"]

CallIndentField ==
    /\ call.op = "none"
    /\ \E result \in Results(1) :
         call' = [op |-> "_get_mptt_indent_field", result |-> result,
                  ret |-> _get_mptt_indent_field(Cl(FALSE, <<result>>, NoFormset), result)]
    /\ UNCHANGED <<list_display, list_display_links, list_column_classes>>

CallItemsForResult ==
    /\ call.op = "none"
    /\ \E result \in Results(1), form \in Forms, is_popup \in BOOLEAN :
         call' = [op |-> "stylable_items_for_result", result |-> result,
                  form |-> form, is_popup |-> is_popup,
                  ret |-> stylable_items_for_result(
                              Cl(is_popup, <<result>>, NoFormset), result, form)]
    /\ UNCHANGED <<list_display, list_display_links, list_column_classes>>

CallResultHeaders ==
    /\ call.op = "none"
    /\ \E result_headers \in [1..Len(list_display) -> HeaderShapes] :
         call' = [op |-> "stylable_result_headers",
                  result_headers |-> result_headers,
                  ret |-> stylable_result_headers(Cl(FALSE, <<>>, NoFormset),
                                                  result_headers)]
    /\ UNCHANGED <<list_display, list_display_links, list_column_classes>>

CallResults ==
    /\ call.op = "none"
    /\ \E result_list \in ResultLists, formset \in FormSets, is_popup \in BOOLEAN :
         call' = [op |-> "stylable_results", result_list |-> result_list,
                  formset |-> formset, is_popup |-> is_popup,
                  ret |-> stylable_results(Cl(is_popup, result_list, formset))]
    /\ UNCHANGED <<list_display, list_display_links, list_column_classes>>

(* The template tag, on a change list page of one result *)
CallResultList ==
    /\ call.op = "none"
    /\ \E result_headers \in [1..Len(list_display) -> HeaderShapes],
          result \in Results(1),
          formset \in {fs \in FormSets : Len(fs.forms) <= 1},
          is_popup \in BOOLEAN :
         call' = [op |-> "stylable_result_list",
                  result_headers |-> result_headers,
                  ret |-> stylable_result_list(Cl(is_popup, <<result>>, formset),
                                               result_headers)]
    /\ UNCHANGED <<list_display, list_display_links, list_column_classes>>

(* The call returns to the template engine *)
Return ==
    /\ call.op # "none"
    /\ call' = [op |-> "none"]
    /\ UNCHANGED <<list_display, list_display_links, list_column_classes>>

Next ==
    \/ CallIndentField
    \/ CallItemsForResult
    \/ CallResultHeaders
    \/ CallResults
    \/ CallResultList
    \/ Return

Spec == Init /\ [][Next]_vars

(* The headers alone *)
NextHeaders ==
    \/ CallResultHeaders
    \/ Return

SpecHeaders == Init /\ [][NextHeaders]_vars

(* One row alone *)
NextItems ==
    \/ CallIndentField
    \/ CallItemsForResult
    \/ Return

SpecItems == Init /\ [][NextItems]_vars

----------------------------------------------------------------------------
(* Properties *)

IsClassToken(t) == t.k \in {"class", "col-"}

(* The classes a class_attrib string names, in order *)
ClassList(class_attrib) == SelectSeq(class_attrib, IsClassToken)

IsLink(cell) == cell.href # 0

HasPadding(cell) == cell.style # -1

Last(s) == s[Len(s)]

(* C1: for every result row and every name of list_display with a non-empty *)
(* entry in list_column_classes, stylable_items_for_result completes and   *)
(* the cell of that column has a class attribute that ends with that       *)
(* class, for model fields and for columns that are no model fields.       *)
C1_CustomClassOnEveryColumn ==
    call.op = "stylable_items_for_result" =>
        /\ call.ret.status = "ok"
        /\ \A i \in 1..Len(list_display) :
             LET column_class == DictGet(list_column_classes, list_display[i])
             IN  Truthy(column_class) =>
                   /\ call.ret.cells[i].classes # <<>>
                   /\ Last(call.ret.cells[i].classes) = column_class

C3_TreeIndent ==
    call.op = "stylable_items_for_result" =>
        LET cells == call.ret.cells
            padded == {i \in 1..Len(cells) : HasPadding(cells[i])}
        IN  /\ (call.result.mptt /\ \E i \in 1..Len(list_display) :
                                       IsModelField(list_display[i]))
                 => /\ call.ret.status = "ok"
                    /\ Cardinality(padded) = 1
                    /\ \A i \in padded :
                         cells[i].style = 5 + MPTT_ADMIN_LEVEL_INDENT * call.result.level
            /\ ~call.result.mptt
                 => /\ call.ret.status = "ok"
                    /\ padded = {}

(* C4: stylable_results yields one row per element of cl.result_list, in   *)
(* result_list order, without a formset and with one; with a formset the   *)
(* i-th row is rendered with the i-th form.                                *)
C4_OneRowPerResult ==
    call.op = "stylable_results" =>
        /\ call.ret.status = "ok"
        /\ Len(call.ret.rows) = Len(call.result_list)
        /\ \A i \in 1..Len(call.ret.rows) :
             LET row == call.ret.rows[i]
             IN  /\ \A j \in 1..Len(row) :
                      IsLink(row[j]) => row[j].href = call.result_list[i].pk
                 /\ (call.formset.present /\ i <= Len(call.formset.forms)) =>
                      /\ Len(row) = Len(list_display) + 1
                      /\ Last(row).form = call.formset.forms[i].id

(* C5: in every rendered row, the cell of column i is a link exactly when  *)
(* list_display_links is empty and i is the first column, or the column is *)
(* named in list_display_links; with an empty list_display_links the first *)
(* cell is a th; a th cell is the first link cell of its row (so there is  *)
(* at most one), and every other cell is a td.                             *)
C5_LinkCells ==
    (call.op = "stylable_items_for_result" /\ call.ret.status = "ok") =>
        LET cells == call.ret.cells
            n == Len(list_display)
        IN  /\ Len(cells) = n + (IF call.form # NoForm THEN 1 ELSE 0)
            /\ \A i \in 1..n :
                 IsLink(cells[i]) <=>
                    IF list_display_links = {}
                    THEN i = 1
                    ELSE list_display[i] \in list_display_links
            /\ (list_display_links = {} /\ n >= 1) => cells[1].tag = "th"
            /\ \A i \in 1..Len(cells) :
                 /\ cells[i].tag \in {"th", "td"}
                 /\ cells[i].tag = "th" =>
                      /\ IsLink(cells[i])
                      /\ \A j \in 1..(i - 1) : ~IsLink(cells[j])
            /\ Cardinality({i \in 1..Len(cells) : cells[i].tag = "th"}) <= 1

C5_Witness ==
    /\ call.op = "stylable_items_for_result"
    /\ call.ret.status = "ok"
    /\ list_display_links # {}
    /\ call.form # NoForm
    /\ Len(call.ret.cells) = 3
    /\ IsLink(call.ret.cells[1]) /\ call.ret.cells[1].tag = "th"
    /\ IsLink(call.ret.cells[2]) /\ call.ret.cells[2].tag = "td"

FieldIndexes == {i \in 1..Len(list_display) : IsModelField(list_display[i])}

CallableAttrIndexes ==
    {i \in 1..Len(list_display) :
        HasResultAttr(list_display[i]) /\ ResultAttrCallable(list_display[i])}

First(S) == CHOOSE i \in S : \A j \in S : i <= j

(* C6: for a tree instance _get_mptt_indent_field returns the first name   *)
(* of list_display that is a model field; when there is none, the first    *)
(* that is a callable attribute of the result; when there is neither,      *)
(* None; for an instance without _mptt_meta it returns None.               *)
C6_IndentField ==
    call.op = "_get_mptt_indent_field" =>
        /\ call.ret.status = "ok"
        /\ call.ret.field =
             IF ~call.result.mptt THEN None
             ELSE IF FieldIndexes # {} THEN list_display[First(FieldIndexes)]
             ELSE IF CallableAttrIndexes # {}
                  THEN list_display[First(CallableAttrIndexes)]
             ELSE None

====
